---- MODULE Spec2Model ----
(***************************************************************************)
(* A model of aioice's STUN core (src/aioice/stun.py): the Transaction     *)
(* retry state machine and the message / address codec.                    *)
(*                                                                         *)
(* Time is counted in units of RETRY_INTERVAL (0.5 s), so every delay the  *)
(* code computes (0.5 * 2^k seconds) is an integer.                        *)
(***************************************************************************)
EXTENDS Integers, Sequences, FiniteSets, TLC

(***************************************************************************)
(* Program constants.                                                      *)
(***************************************************************************)
\* RETRY_INTERVAL = 0.5 (seconds): one time unit of the model.
RETRY_INTERVAL == 1
RETRY_MAX == 7
HEADER_LENGTH == 20
IPV4_PROTOCOL == 1
IPV6_PROTOCOL == 2

(***************************************************************************)
(* Bounds of the model.                                                    *)
(***************************************************************************)
\* how many times the transport may invoke message_received
MaxReceive == 2
\* the latest loop time at which the transaction is constructed
MaxStart == 1

\* the requests, destination addresses and responses the environment uses
Requests == {"req1", "req2"}
Addrs == {"addrA", "addrB"}
Responses == {"resp1", "resp2"}

(***************************************************************************)
(* The Transaction's state.                                                *)
(***************************************************************************)
VARIABLES
    request,         \* self.__request
    addr,            \* self.__addr
    future,          \* self.__future: [state, value]
    timeout_handle,  \* self.__timeout_handle: [state, when]; state "none" is None
    timeout_delay,   \* self.__timeout_delay (0: the attribute is not set yet)
    tries,           \* self.__tries
    sent,            \* the transport: the calls protocol.send(request, addr), with their time
    now,             \* the event loop's clock
    pc,              \* the coroutine run(): idle, awaiting, returned, raised, cancelled
    runResult,       \* what the awaiter of run() got
    errors,          \* the exceptions raised out of a handler: <<handler, exception>>
    nrecv,           \* how many times message_received has been invoked
    lastRecv,        \* the last message_received call and the state it was made in
    delivered,       \* the message of the first message_received call that found the
                     \* transaction sent and unresolved
    scheduled,       \* the event loop: the handles loop.call_later has returned, in
                     \* the order of the calls; the last is self.__timeout_handle
    \* the codec under test
    msg,             \* the Message being built
    wire,            \* a datagram: bytes(msg), or bytes off the network
    parsed,          \* the outcome of parse_message(wire)
    cpc,             \* where the codec run is: build, signed, wire, raw, cut,
                     \* patched, walk, parsed, failed
    patched,         \* the last add_fingerprint / add_message_integrity call: how
                     \* many calls were made (n), which attribute it set (by),
                     \* whether the Message held it before (had), the attribute
                     \* bytes before the call (before), the length it patched (length)
    \* xor_address under test
    xdata,           \* its data argument
    xtid,            \* its transaction_id argument
    xout1,           \* the outcome of xor_address(xdata, xtid)
    xout2,           \* the outcome of xor_address applied to xout1
    xpc,             \* in, once, twice
    \* unpack_address under test
    adata,           \* its data argument
    aout,            \* the outcome of unpack_address(adata)
    apc,             \* in, done
    \* parse_message run one loop iteration at a time
    wpos,            \* pos
    wattrs,          \* attributes
    wpc              \* off, loop, returned, raised

txvars == <<request, addr, future, timeout_handle, timeout_delay, tries, sent, now,
            pc, runResult, errors, nrecv, lastRecv, delivered, scheduled>>
codecvars == <<msg, wire, parsed, cpc, patched>>
xorvars == <<xdata, xtid, xout1, xout2, xpc>>
addrvars == <<adata, aout, apc>>
walkvars == <<wpos, wattrs, wpc>>
vars == <<txvars, codecvars, xorvars, addrvars, walkvars>>

NoHandle == [state |-> "none", when |-> 0]
PendingFuture == [state |-> "pending", value |-> "none"]
NoRecv == [called |-> FALSE, msg |-> "none", wasPending |-> FALSE, hadTimer |-> FALSE]

\* Transaction.__init__
TxInit ==
    /\ request \in Requests
    /\ addr \in Addrs
    /\ future = PendingFuture
    /\ timeout_handle = NoHandle
    /\ timeout_delay = 0
    /\ tries = 0
    /\ sent = <<>>
    /\ now \in 0..MaxStart
    /\ pc = "idle"
    /\ runResult = "none"
    /\ errors = {}
    /\ nrecv = 0
    /\ lastRecv = NoRecv
    /\ delivered = "none"
    /\ scheduled = <<>>

\* asyncio.Future.set_result / set_exception: a future that is done raises
\* InvalidStateError and keeps its outcome.
FutureDone(f) == f.state # "pending"

\* mutant: a set_result / set_exception that overwrites the outcome of a done future
FutureSet_Overwrite(f, st, v) == [state |-> st, value |-> v]

FutureSet(f, st, v) ==
    IF FutureDone(f) THEN f ELSE [state |-> st, value |-> v]

\* mutant: message_received without its timer cancel
HandleCancel_Noop(h) == h

\* Handle.cancel(): a pending timer is cancelled; a timer that has fired, or is
\* cancelled already, stays as it is.
HandleCancel(h) ==
    IF h.state = "pending" THEN [h EXCEPT !.state = "cancelled"] ELSE h

\* mutant: a delay that grows by RETRY_INTERVAL instead of doubling
NextDelay_Linear(t, d) == IF t # 0 THEN d + RETRY_INTERVAL ELSE RETRY_INTERVAL

\* the delay __retry computes: RETRY_INTERVAL on the first send, doubled after
NextDelay(t, d) == IF t # 0 THEN 2 * d ELSE RETRY_INTERVAL

\* mutant: the retry budget compared with > instead of >=
RetryExhausted_OffByOne(t) == t > RETRY_MAX

\* whether __retry gives up
RetryExhausted(t) == t >= RETRY_MAX

\* mutant: a counter that a send leaves as it is
NextTries_Stuck(t) == t

\* self.__tries += 1
NextTries(t) == t + 1

\* mutant: a __retry that returns on an exhausted budget without set_exception
Retry_NoTimeout(h, sch) ==
    IF RetryExhausted(tries)
    THEN /\ timeout_handle' = h
         /\ scheduled' = sch
         /\ UNCHANGED <<future, errors, sent, timeout_delay, tries>>
    ELSE /\ sent' = Append(sent, [request |-> request, addr |-> addr, at |-> now])
         /\ timeout_delay' = NextDelay(tries, timeout_delay)
         /\ timeout_handle' = [state |-> "pending", when |-> now + timeout_delay']
         /\ scheduled' = Append(sch, timeout_handle')
         /\ tries' = NextTries(tries)
         /\ UNCHANGED <<future, errors>>

\* Transaction.__retry, called with the timer handle (h) and the loop's
\* handles (sch) as they are at the call
Retry(h, sch) ==
    IF RetryExhausted(tries)
    THEN /\ future' = FutureSet(future, "exception", "Timeout")
         /\ errors' = IF FutureDone(future)
                      THEN errors \cup {<<"__retry", "InvalidStateError">>}
                      ELSE errors
         /\ timeout_handle' = h
         /\ scheduled' = sch
         /\ UNCHANGED <<sent, timeout_delay, tries>>
    ELSE /\ sent' = Append(sent, [request |-> request, addr |-> addr, at |-> now])
         /\ timeout_delay' = NextDelay(tries, timeout_delay)
         /\ timeout_handle' = [state |-> "pending", when |-> now + timeout_delay']
         /\ scheduled' = Append(sch, timeout_handle')
         /\ tries' = NextTries(tries)
         /\ UNCHANGED <<future, errors>>

\* Transaction.run up to its await: the first __retry runs at once
Run ==
    /\ pc = "idle"
    /\ Retry(timeout_handle, scheduled)
    /\ pc' = "awaiting"
    /\ UNCHANGED <<request, addr, now, runResult, nrecv, lastRecv, delivered>>
    /\ UNCHANGED <<codecvars, xorvars, addrvars, walkvars>>

\* Transaction.run after its await: the future's outcome reaches the awaiter
RunResume ==
    /\ pc = "awaiting"
    /\ future.state \in {"result", "exception"}
    /\ pc' = IF future.state = "result" THEN "returned" ELSE "raised"
    /\ runResult' = future.value
    /\ UNCHANGED <<request, addr, future, timeout_handle, timeout_delay, tries, sent,
                   now, errors, nrecv, lastRecv, delivered, scheduled>>
    /\ UNCHANGED <<codecvars, xorvars, addrvars, walkvars>>

\* the handles of the loop that wait for their time
PendingTimers == {k \in DOMAIN scheduled : scheduled[k].state = "pending"}

\* the event loop's clock advances while timers wait and none of them is due
Tick ==
    /\ PendingTimers # {}
    /\ \A k \in PendingTimers : now < scheduled[k].when
    /\ now' = now + 1
    /\ UNCHANGED <<request, addr, future, timeout_handle, timeout_delay, tries, sent,
                   pc, runResult, errors, nrecv, lastRecv, delivered, scheduled>>
    /\ UNCHANGED <<codecvars, xorvars, addrvars, walkvars>>

\* loop.call_later's callback: a timer of the loop is due and was not
\* cancelled. self.__timeout_handle is the handle of the last call_later.
TimerFire ==
    /\ \E k \in PendingTimers :
          /\ now >= scheduled[k].when
          /\ Retry(IF k = Len(scheduled)
                   THEN [timeout_handle EXCEPT !.state = "fired"]
                   ELSE timeout_handle,
                   [scheduled EXCEPT ![k].state = "fired"])
    /\ UNCHANGED <<request, addr, now, pc, runResult, nrecv, lastRecv, delivered>>
    /\ UNCHANGED <<codecvars, xorvars, addrvars, walkvars>>

\* Transaction.message_received(message, addr), invoked by the transport
MessageReceived(m) ==
    /\ nrecv < MaxReceive
    /\ nrecv' = nrecv + 1
    /\ lastRecv' = [called |-> TRUE, msg |-> m,
                    wasPending |-> ~FutureDone(future),
                    hadTimer |-> timeout_handle.state # "none"]
    /\ IF timeout_handle.state = "none"
       THEN \* None.cancel() raises AttributeError before set_result is reached
            /\ errors' = errors \cup {<<"message_received", "AttributeError">>}
            /\ UNCHANGED <<future, timeout_handle, delivered, scheduled>>
       ELSE /\ timeout_handle' = HandleCancel(timeout_handle)
            /\ scheduled' = [scheduled EXCEPT ![Len(scheduled)] = HandleCancel(@)]
            /\ future' = FutureSet(future, "result", m)
            /\ errors' = IF FutureDone(future)
                         THEN errors \cup {<<"message_received", "InvalidStateError">>}
                         ELSE errors
            /\ delivered' = IF FutureDone(future) THEN delivered ELSE m
    /\ UNCHANGED <<request, addr, timeout_delay, tries, sent, now, pc, runResult>>
    /\ UNCHANGED <<codecvars, xorvars, addrvars, walkvars>>

\* the task awaiting run() is cancelled while it waits: asyncio cancels the
\* future the task waits on and run() ends with CancelledError. Nothing in run()
\* touches the timer.
CancelAwait ==
    /\ pc = "awaiting"
    /\ ~FutureDone(future)
    /\ future' = [state |-> "cancelled", value |-> "CancelledError"]
    /\ pc' = "cancelled"
    /\ runResult' = "CancelledError"
    /\ UNCHANGED <<request, addr, timeout_handle, timeout_delay, tries, sent, now,
                   errors, nrecv, lastRecv, delivered, scheduled>>
    /\ UNCHANGED <<codecvars, xorvars, addrvars, walkvars>>

(***************************************************************************)
(* The codec. A byte string is a sequence of 0..255. TLC's integers have   *)
(* 32 bits with a sign, so an integer of 32 bits or more (an unsigned      *)
(* attribute value, an IPv4 or IPv6 address) is held as the sequence of    *)
(* its 16-bit groups, most significant first. A function that can raise    *)
(* returns Ok(value) or Err(exception).                                    *)
(***************************************************************************)
COOKIE == 554869826          \* 0x2112a442
COOKIE_SHIFT == 65536        \* COOKIE >> 16 is COOKIE \div 2^16

Ok(v) == [ok |-> TRUE, val |-> v, err |-> "none"]
Err(e) == [ok |-> FALSE, val |-> <<>>, err |-> e]

Min(a, b) == IF a < b THEN a ELSE b

\* Python's data[a:b] for 0 <= a <= b, on a 1-indexed sequence
Slice(data, a, b) == SubSeq(data, a + 1, Min(b, Len(data)))

\* b'\x00' * n
RECURSIVE Zeros(_)
Zeros(n) == IF n <= 0 THEN <<>> ELSE <<0>> \o Zeros(n - 1)

\* the operators ^, & and | on naturals
RECURSIVE BitXor(_, _)
BitXor(a, b) ==
    IF a = 0 THEN b
    ELSE IF b = 0 THEN a
    ELSE (((a % 2) + (b % 2)) % 2) + 2 * BitXor(a \div 2, b \div 2)

RECURSIVE BitAnd(_, _)
BitAnd(a, b) ==
    IF a = 0 \/ b = 0 THEN 0
    ELSE ((a % 2) * (b % 2)) + 2 * BitAnd(a \div 2, b \div 2)

RECURSIVE BitOr(_, _)
BitOr(a, b) ==
    IF a = 0 THEN b
    ELSE IF b = 0 THEN a
    ELSE (IF a % 2 = 1 \/ b % 2 = 1 THEN 1 ELSE 0) + 2 * BitOr(a \div 2, b \div 2)

\* struct's '!H': 16 bits, big-endian
PackH(n) == <<n \div 256, n % 256>>
UnpackH(b) == b[1] * 256 + b[2]

\* big-endian bytes of an integer given by its 16-bit groups, and back
RECURSIVE PackGroups(_)
PackGroups(g) == IF g = <<>> THEN <<>> ELSE PackH(Head(g)) \o PackGroups(Tail(g))

RECURSIVE UnpackGroups(_)
UnpackGroups(b) ==
    IF Len(b) < 2 THEN <<>> ELSE <<UnpackH(b)>> \o UnpackGroups(Tail(Tail(b)))

\* struct's '!I' of an integer below 2^31
PackI(n) == PackGroups(<<n \div 65536, n % 65536>>)

\* struct's '12s': exactly 12 bytes, cut or padded with zeros
Pack12s(t) == IF Len(t) >= 12 THEN SubSeq(t, 1, 12) ELSE t \o Zeros(12 - Len(t))

(***************************************************************************)
(* Attribute values: [t, s, p] with t the Python type, s the sequence that *)
(* holds the value (groups, code points or bytes) and p a port.            *)
(***************************************************************************)
IPv4Value(groups, port) == [t |-> "ipv4", s |-> groups, p |-> port]
IPv6Value(groups, port) == [t |-> "ipv6", s |-> groups, p |-> port]
IntValue(groups) == [t |-> "int", s |-> groups, p |-> 0]
StrValue(codepoints) == [t |-> "str", s |-> codepoints, p |-> 0]
BytesValue(b) == [t |-> "bytes", s |-> b, p |-> 0]
NoneValue == [t |-> "none", s |-> <<>>, p |-> 0]

\* mutant: a pad of the cookie and the transaction id only, 16 bytes
XPad_CookieOnly(transaction_id) == PackI(COOKIE) \o transaction_id

\* xor_address's pad: pack('!HI', COOKIE >> 16, COOKIE) + transaction_id
XPad(transaction_id) ==
    PackH(COOKIE \div COOKIE_SHIFT) \o PackI(COOKIE) \o transaction_id

\* mutant: an xor_address that combines the bytes with | instead of ^
xor_address_Or(data, transaction_id) ==
    LET xpad == XPad(transaction_id)
    IN IF Len(data) - 2 > Len(xpad)
       THEN Err("IndexError")
       ELSE Ok([i \in 1..Len(data) |->
                  IF i <= 2 THEN data[i] ELSE BitOr(data[i], xpad[i - 2])])

\* xor_address: xpad[i - 2] raises IndexError past the end of the pad
xor_address(data, transaction_id) ==
    LET xpad == XPad(transaction_id)
    IN IF Len(data) - 2 > Len(xpad)
       THEN Err("IndexError")
       ELSE Ok([i \in 1..Len(data) |->
                  IF i <= 2 THEN data[i] ELSE BitXor(data[i], xpad[i - 2])])

\* pack_address
pack_address(value) ==
    IF value.t = "ipv4"
    THEN Ok(<<0, IPV4_PROTOCOL>> \o PackH(value.p) \o PackGroups(value.s))
    ELSE IF value.t = "ipv6"
    THEN Ok(<<0, IPV6_PROTOCOL>> \o PackH(value.p) \o PackGroups(value.s))
    ELSE Err("ValueError")

\* pack_bytes
pack_bytes(value) == Ok(value.s)

\* pack_none
pack_none(value) == Ok(<<>>)

\* str.encode('utf8') of one code point
Utf8Char(c) ==
    IF c < 128 THEN <<c>>
    ELSE IF c < 2048 THEN <<192 + (c \div 64), 128 + (c % 64)>>
    ELSE IF c < 65536 THEN <<224 + (c \div 4096), 128 + ((c \div 64) % 64), 128 + (c % 64)>>
    ELSE <<240 + (c \div 262144), 128 + ((c \div 4096) % 64),
           128 + ((c \div 64) % 64), 128 + (c % 64)>>

RECURSIVE Utf8Encode(_)
Utf8Encode(cs) == IF cs = <<>> THEN <<>> ELSE Utf8Char(Head(cs)) \o Utf8Encode(Tail(cs))

\* pack_string
pack_string(value) == Ok(Utf8Encode(value.s))

\* pack_unsigned
pack_unsigned(value) == Ok(PackGroups(value.s))

\* pack_xor_address
pack_xor_address(value, transaction_id) ==
    LET packed == pack_address(value)
    IN IF packed.ok THEN xor_address(packed.val, transaction_id) ELSE packed

\* mutant: an unpack_address that takes an IPv4 address of any length
unpack_address_AnyIPv4Length(data) ==
    IF Len(data) < 4 THEN Err("ValueError: address length is less than 4 bytes")
    ELSE LET protocol == data[2]
             port == UnpackH(Slice(data, 2, 4))
             address == Slice(data, 4, Len(data))
         IN IF protocol = IPV4_PROTOCOL
            THEN Ok(IPv4Value(UnpackGroups(address), port))
            ELSE IF protocol = IPV6_PROTOCOL
            THEN IF Len(address) # 16
                 THEN Err("ValueError: invalid length for IPv6")
                 ELSE Ok(IPv6Value(UnpackGroups(address), port))
            ELSE Err("ValueError: protocol is unsupported")

\* unpack_address
unpack_address(data) ==
    IF Len(data) < 4 THEN Err("ValueError: address length is less than 4 bytes")
    ELSE LET protocol == data[2]
             port == UnpackH(Slice(data, 2, 4))
             address == Slice(data, 4, Len(data))
         IN IF protocol = IPV4_PROTOCOL
            THEN IF Len(address) # 4
                 THEN Err("ValueError: invalid length for IPv4")
                 ELSE Ok(IPv4Value(UnpackGroups(address), port))
            ELSE IF protocol = IPV6_PROTOCOL
            THEN IF Len(address) # 16
                 THEN Err("ValueError: invalid length for IPv6")
                 ELSE Ok(IPv6Value(UnpackGroups(address), port))
            ELSE Err("ValueError: protocol is unsupported")

\* unpack_xor_address
unpack_xor_address(data, transaction_id) ==
    LET x == xor_address(data, transaction_id)
    IN IF x.ok THEN unpack_address(x.val) ELSE x

\* unpack_bytes
unpack_bytes(data) == Ok(BytesValue(data))

\* unpack_none
unpack_none(data) == Ok(NoneValue)

\* whether b is a UTF-8 continuation byte
IsCont(b) == b >= 128 /\ b < 192

\* bytes.decode('utf8'), strict: the code points, or <<-1>> where Python raises
\* UnicodeDecodeError
RECURSIVE Utf8Decode(_)
Utf8Decode(b) ==
    IF b = <<>> THEN <<>>
    ELSE LET b1 == b[1]
             n == IF b1 < 128 THEN 1
                  ELSE IF b1 >= 194 /\ b1 < 224 THEN 2
                  ELSE IF b1 >= 224 /\ b1 < 240 THEN 3
                  ELSE IF b1 >= 240 /\ b1 < 245 THEN 4
                  ELSE 0
             wellFormed ==
                 /\ n > 0
                 /\ Len(b) >= n
                 /\ \A i \in 2..n : IsCont(b[i])
                 /\ (b1 = 224 => b[2] >= 160)
                 /\ (b1 = 237 => b[2] < 160)
                 /\ (b1 = 240 => b[2] >= 144)
                 /\ (b1 = 244 => b[2] < 144)
         IN IF ~wellFormed THEN <<-1>>
            ELSE LET c == IF n = 1 THEN b1
                          ELSE IF n = 2 THEN (b1 - 192) * 64 + (b[2] - 128)
                          ELSE IF n = 3
                          THEN (b1 - 224) * 4096 + (b[2] - 128) * 64 + (b[3] - 128)
                          ELSE (b1 - 240) * 262144 + (b[2] - 128) * 4096
                               + (b[3] - 128) * 64 + (b[4] - 128)
                     rest == Utf8Decode(SubSeq(b, n + 1, Len(b)))
                 IN IF rest # <<>> /\ rest[Len(rest)] = -1 THEN <<-1>>
                    ELSE <<c>> \o rest

\* unpack_string
unpack_string(data) ==
    LET cs == Utf8Decode(data)
    IN IF cs # <<>> /\ cs[Len(cs)] = -1 THEN Err("UnicodeDecodeError")
       ELSE Ok(StrValue(cs))

\* unpack_unsigned: unpack('!I', data) wants exactly 4 bytes
unpack_unsigned(data) ==
    IF Len(data) # 4 THEN Err("struct.error") ELSE Ok(IntValue(UnpackGroups(data)))

(***************************************************************************)
(* The attribute registry and the Message.                                 *)
(***************************************************************************)
\* ATTRIBUTES: type code, name, and the kind of its pack / unpack functions
ATTRIBUTES == <<
    [type |-> 1,     name |-> "MAPPED-ADDRESS",      kind |-> "address"],
    [type |-> 3,     name |-> "CHANGE-REQUEST",      kind |-> "unsigned"],
    [type |-> 4,     name |-> "SOURCE-ADDRESS",      kind |-> "address"],
    [type |-> 5,     name |-> "CHANGED-ADDRESS",     kind |-> "address"],
    [type |-> 6,     name |-> "USERNAME",            kind |-> "string"],
    [type |-> 8,     name |-> "MESSAGE-INTEGRITY",   kind |-> "bytes"],
    [type |-> 18,    name |-> "XOR-PEER-ADDRESS",    kind |-> "xor_address"],
    [type |-> 20,    name |-> "REALM",               kind |-> "string"],
    [type |-> 21,    name |-> "NONCE",               kind |-> "bytes"],
    [type |-> 22,    name |-> "XOR-RELAYED-ADDRESS", kind |-> "xor_address"],
    [type |-> 32,    name |-> "XOR-MAPPED-ADDRESS",  kind |-> "xor_address"],
    [type |-> 36,    name |-> "PRIORITY",            kind |-> "unsigned"],
    [type |-> 37,    name |-> "USE-CANDIDATE",       kind |-> "none"],
    [type |-> 32802, name |-> "SOFTWARE",            kind |-> "string"],
    [type |-> 32808, name |-> "FINGERPRINT",         kind |-> "unsigned"],
    [type |-> 32809, name |-> "ICE-CONTROLLED",      kind |-> "bytes"],
    [type |-> 32810, name |-> "ICE-CONTROLLING",     kind |-> "bytes"],
    [type |-> 32811, name |-> "RESPONSE-ORIGIN",     kind |-> "address"],
    [type |-> 32812, name |-> "OTHER-ADDRESS",       kind |-> "address"] >>

AttrIndex == 1..Len(ATTRIBUTES)
KnownType(t) == \E i \in AttrIndex : ATTRIBUTES[i].type = t
ATTRIBUTES_BY_TYPE(t) == ATTRIBUTES[CHOOSE i \in AttrIndex : ATTRIBUTES[i].type = t]
ATTRIBUTES_BY_NAME(n) == ATTRIBUTES[CHOOSE i \in AttrIndex : ATTRIBUTES[i].name = n]

\* class Class
REQUEST == 0
INDICATION == 16
RESPONSE == 256
ERROR == 272
Classes == {REQUEST, INDICATION, RESPONSE, ERROR}

\* the masks parse_message applies to the message type: 0x3eef and 0x0100
METHOD_MASK == 16111
CLASS_MASK == 256

\* Message.__init__
Message(message_method, message_class, transaction_id, attributes) ==
    [message_method |-> message_method, message_class |-> message_class,
     transaction_id |-> transaction_id, attributes |-> attributes]

\* OrderedDict.__setitem__: a new key goes last, a known key keeps its place
DictSet(d, name, value) ==
    IF \E i \in 1..Len(d) : d[i].name = name
    THEN [i \in 1..Len(d) |-> IF d[i].name = name
                                THEN [name |-> name, value |-> value] ELSE d[i]]
    ELSE Append(d, [name |-> name, value |-> value])

\* the attribute's pack function, applied as __bytes__ applies it
AttrPack(kind, value, transaction_id) ==
    CASE kind = "xor_address" -> pack_xor_address(value, transaction_id)
      [] kind = "address" -> pack_address(value)
      [] kind = "unsigned" -> pack_unsigned(value)
      [] kind = "string" -> pack_string(value)
      [] kind = "bytes" -> pack_bytes(value)
      [] kind = "none" -> pack_none(value)

\* the attribute's unpack function, applied as parse_message applies it
AttrUnpack(kind, v, transaction_id) ==
    CASE kind = "xor_address" -> unpack_xor_address(v, transaction_id)
      [] kind = "address" -> unpack_address(v)
      [] kind = "unsigned" -> unpack_unsigned(v)
      [] kind = "string" -> unpack_string(v)
      [] kind = "bytes" -> unpack_bytes(v)
      [] kind = "none" -> unpack_none(v)

\* mutant: a padding of 4 - attr_len % 4, which pads an aligned value with 4 bytes
PadLen_Full(attr_len) == 4 - (attr_len % 4)

\* mutant: the class taken with both class bits, 0x0110
ParsedClass_BothBits(message_type) == BitAnd(message_type, 272)

\* pad_len = 4 * ((attr_len + 3) // 4) - attr_len
PadLen(attr_len) == 4 * ((attr_len + 3) \div 4) - attr_len

\* the loop of Message.__bytes__: the attribute section
RECURSIVE PackAttributes(_, _)
PackAttributes(attributes, transaction_id) ==
    IF attributes = <<>> THEN Ok(<<>>)
    ELSE LET a == Head(attributes)
             d == ATTRIBUTES_BY_NAME(a.name)
             v == AttrPack(d.kind, a.value, transaction_id)
         IN IF ~v.ok THEN v
            ELSE LET rest == PackAttributes(Tail(attributes), transaction_id)
                 IN IF ~rest.ok THEN rest
                    ELSE Ok(PackH(d.type) \o PackH(Len(v.val)) \o v.val
                            \o Zeros(PadLen(Len(v.val))) \o rest.val)

\* Message.__bytes__
Bytes(m) ==
    LET data == PackAttributes(m.attributes, m.transaction_id)
    IN IF ~data.ok THEN data
       ELSE Ok(PackH(BitOr(m.message_method, m.message_class))
               \o PackH(Len(data.val)) \o PackI(COOKIE) \o Pack12s(m.transaction_id)
               \o data.val)

FINGERPRINT_XOR == 1398035790          \* 0x5354554e

\* binascii.crc32 (polynomial 0xedb88320, reflected), on a 32-bit register
\* held as its two 16-bit halves <<high, low>>.
\* One shift of the register:
Crc32Shift(reg) ==
    LET hi == reg[1] \div 2
        lo == (reg[2] \div 2) + ((reg[1] % 2) * 32768)
    IN IF reg[2] % 2 = 1
       THEN <<BitXor(hi, 60856), BitXor(lo, 33568)>>
       ELSE <<hi, lo>>

\* the table of the byte-wise algorithm: 8 shifts of each byte
Crc32Table ==
    [b \in 0..255 |->
        Crc32Shift(Crc32Shift(Crc32Shift(Crc32Shift(
        Crc32Shift(Crc32Shift(Crc32Shift(Crc32Shift(<<0, b>>))))))))]

\* the register after one more byte
Crc32Byte(reg, b) ==
    LET t == Crc32Table[BitXor(reg[2] % 256, b)]
    IN <<BitXor(t[1], reg[1] \div 256),
         BitXor(t[2], (reg[2] \div 256) + ((reg[1] % 256) * 256))>>

\* the register after the bytes lo..hi of data, reg being the register before
\* them: the first half of the bytes, then the second half from the value r
\* the first half has left
RECURSIVE Crc32Register(_, _, _, _)
Crc32Register(data, lo, hi, reg) ==
    IF lo > hi THEN reg
    ELSE IF lo = hi THEN Crc32Byte(reg, data[lo])
    ELSE LET mid == (lo + hi) \div 2
         IN CHOOSE out \in {Crc32Register(data, mid + 1, hi, r) :
                               r \in {Crc32Register(data, lo, mid, reg)}} : TRUE

crc32(data) ==
    LET reg == Crc32Register(data, 1, Len(data), <<65535, 65535>>)
    IN <<65535 - reg[1], 65535 - reg[2]>>

\* hmac.new(key, data, 'sha1').digest(): 20 bytes that depend on the key and
\* on the data. SHA-1 is not computed: the digest stands as the 4 bytes of
\* crc32(key + data) five times over, which keeps its length and its
\* dependence on both arguments.
hmac_sha1_digest(key, data) ==
    LET c == PackGroups(crc32(key \o data))
    IN c \o c \o c \o c \o c

\* data[0:2] + pack('!H', len(data) - HEADER_LENGTH + n) + data[4:]
PatchedLength(data, n) == Len(data) - HEADER_LENGTH + n
WithPatchedLength(data, n) ==
    Slice(data, 0, 2) \o PackH(PatchedLength(data, n)) \o Slice(data, 4, Len(data))

\* Message.add_fingerprint: the Message after the call
add_fingerprint(m) ==
    LET data == Bytes(m)
    IN IF ~data.ok THEN data
       ELSE LET crc == crc32(WithPatchedLength(data.val, 8))
                value == <<BitXor(crc[1], FINGERPRINT_XOR \div 65536),
                           BitXor(crc[2], FINGERPRINT_XOR % 65536)>>
            IN Ok([m EXCEPT !.attributes =
                               DictSet(@, "FINGERPRINT", IntValue(value))])

\* Message.add_message_integrity: the Message after the call
add_message_integrity(m, key) ==
    LET data == Bytes(m)
    IN IF ~data.ok THEN data
       ELSE Ok([m EXCEPT !.attributes =
                   DictSet(@, "MESSAGE-INTEGRITY",
                           BytesValue(hmac_sha1_digest(
                               key, WithPatchedLength(data.val, 24))))])

\* mutant: a walk that steps over the value and forgets its padding
NextPos_NoPad(pos, attr_len, pad_len) == pos + 4 + attr_len

\* mutant: a position that moves by the value and its padding only
NextPos_ValueOnly(pos, attr_len, pad_len) == pos + attr_len + pad_len

\* pos += 4 + attr_len + pad_len
NextPos(pos, attr_len, pad_len) == pos + 4 + attr_len + pad_len

\* the condition of parse_message's while loop
WalkContinues(data, pos) == pos <= Len(data) - 4

\* one iteration of parse_message's while loop: the position and the
\* attributes after it, or the exception of the attribute's unpack function
WalkIteration(data, transaction_id, pos, attributes) ==
    LET attr_type == UnpackH(Slice(data, pos, pos + 2))
        attr_len == UnpackH(Slice(data, pos + 2, pos + 4))
        v == Slice(data, pos + 4, pos + 4 + attr_len)
        pad_len == PadLen(attr_len)
        next == NextPos(pos, attr_len, pad_len)
    IN IF KnownType(attr_type)
       THEN LET d == ATTRIBUTES_BY_TYPE(attr_type)
                u == AttrUnpack(d.kind, v, transaction_id)
            IN IF ~u.ok THEN u
               ELSE Ok([pos |-> next,
                        attributes |-> DictSet(attributes, d.name, u.val)])
       ELSE Ok([pos |-> next, attributes |-> attributes])

\* the attribute walk of parse_message
RECURSIVE ParseAttributes(_, _, _, _)
ParseAttributes(data, transaction_id, pos, attributes) ==
    IF ~WalkContinues(data, pos) THEN Ok(attributes)
    ELSE LET it == WalkIteration(data, transaction_id, pos, attributes)
         IN IF ~it.ok THEN it
            ELSE ParseAttributes(data, transaction_id, it.val.pos, it.val.attributes)

\* parse_message's first check
TooShort(data) == Len(data) < HEADER_LENGTH

\* mutant: a length check that lets bytes after the declared length through
LengthMismatch_AllowsTrailing(data, length) == Len(data) < HEADER_LENGTH + length

\* parse_message's second check
LengthMismatch(data, length) == Len(data) # HEADER_LENGTH + length

\* the method and the class parse_message recovers from the message type
ParsedMethod(message_type) == BitAnd(message_type, METHOD_MASK)
ParsedClass(message_type) == BitAnd(message_type, CLASS_MASK)

\* parse_message
parse_message(data) ==
    IF TooShort(data) THEN Err("ValueError: length is less than 20 bytes")
    ELSE LET message_type == UnpackH(Slice(data, 0, 2))
             length == UnpackH(Slice(data, 2, 4))
             transaction_id == Slice(data, 8, HEADER_LENGTH)
         IN IF LengthMismatch(data, length)
            THEN Err("ValueError: length does not match")
            ELSE LET attributes == ParseAttributes(data, transaction_id,
                                                   HEADER_LENGTH, <<>>)
                 IN IF ~attributes.ok THEN attributes
                    ELSE Ok(Message(ParsedMethod(message_type),
                                    ParsedClass(message_type),
                                    transaction_id, attributes.val))

(***************************************************************************)
(* The inputs of the codec runs.                                           *)
(***************************************************************************)
\* how many attributes a built Message holds
MaxAttrs == 2
\* how many add_fingerprint / add_message_integrity calls a Message gets
MaxAdd == 2
\* the keys of add_message_integrity
Keys == {<<107, 101, 121>>}
\* the longest data handed to xor_address
MaxXorLen == 22

TID_A == [i \in 1..12 |-> i]
TID_B == [i \in 1..12 |-> 255 - 17 * i]
TIDs == {TID_A, TID_B}

\* BINDING, and the method with every bit of the method mask set
BINDING == 1
Methods == {BINDING, METHOD_MASK}

\* the attributes a caller sets: one or two values of every kind of the registry
AttrSamples == {
    <<"MAPPED-ADDRESS", IPv4Value(<<49152, 513>>, 3478)>>,
    <<"XOR-MAPPED-ADDRESS", IPv4Value(<<2560, 1>>, 80)>>,
    <<"XOR-MAPPED-ADDRESS", IPv6Value(<<8193, 3512, 0, 0, 0, 0, 0, 1>>, 65535)>>,
    <<"PRIORITY", IntValue(<<28160, 511>>)>>,
    <<"PRIORITY", IntValue(<<65535, 65535>>)>>,
    <<"USERNAME", StrValue(<<97, 58, 98>>)>>,
    <<"USERNAME", StrValue(<<233, 8364>>)>>,
    <<"SOFTWARE", StrValue(<<128512>>)>>,
    <<"NONCE", BytesValue(<<1, 2, 3, 4, 5>>)>>,
    <<"ICE-CONTROLLING", BytesValue(<<255, 0, 128, 127, 1, 2, 3, 4>>)>>,
    <<"USE-CANDIDATE", NoneValue>> }

\* a datagram off the network: a header with the length of the section it carries
RawWire(message_type, transaction_id, section) ==
    PackH(message_type) \o PackH(Len(section)) \o PackI(COOKIE) \o transaction_id
    \o section

\* one attribute as found on the wire: type, declared length, the bytes after them
RawAttr(attr_type, declared, body) == PackH(attr_type) \o PackH(declared) \o body

\* attribute sections: none; a padded USERNAME; an attribute of an unregistered
\* type before a PRIORITY; a XOR-MAPPED-ADDRESS; a NONCE that declares more
\* bytes than follow; a MAPPED-ADDRESS of an unknown protocol; 3 stray bytes
WireSections == {
    <<>>,
    RawAttr(6, 3, <<97, 98, 99, 0>>),
    RawAttr(30583, 5, <<1, 2, 3, 4, 5, 0, 0, 0>>) \o RawAttr(36, 4, <<110, 0, 1, 255>>),
    RawAttr(32, 8, <<0, 1, 33, 66, 225, 18, 166, 67>>),
    RawAttr(21, 12, <<1, 2, 3, 4>>),
    RawAttr(1, 8, <<0, 3, 13, 150, 192, 0, 2, 1>>),
    RawAttr(37, 0, <<>>) \o <<9, 9, 9>>,
    \* attributes of unregistered types between, before and after registered ones
    RawAttr(36, 4, <<110, 0, 1, 255>>) \o RawAttr(65535, 2, <<7, 7, 0, 0>>)
        \o RawAttr(6, 3, <<97, 98, 99, 0>>),
    RawAttr(2, 0, <<>>) \o RawAttr(32800, 6, <<1, 2, 3, 4, 5, 6, 0, 0>>)
        \o RawAttr(37, 0, <<>>) \o RawAttr(30583, 1, <<1, 0, 0, 0>>) }

\* the values an edit writes into the length field
PatchLengths(data) ==
    {0, 4, 8, 12, 65535} \cup (IF Len(data) >= HEADER_LENGTH
                               THEN {Len(data) - HEADER_LENGTH} ELSE {})

\* the data handed to xor_address: n bytes, the i-th being seed + step * i mod 256
XorData(n, seed, step) == [i \in 1..n |-> (seed + step * i) % 256]
XorPatterns == {<<0, 0>>, <<255, 0>>, <<33, 37>>}

NoMessage == Message(0, 0, <<>>, <<>>)
NotRun == Err("not run")

NotPatched == [n |-> 0, by |-> "none", had |-> FALSE, before |-> 0, length |-> 0]

\* the codec at rest
CodecIdle ==
    /\ patched = NotPatched
    /\ msg = NoMessage
    /\ wire = <<>>
    /\ parsed = NotRun
    /\ cpc = "off"

\* xor_address at rest
XorIdle ==
    /\ xdata = <<>>
    /\ xtid = TID_A
    /\ xout1 = NotRun
    /\ xout2 = NotRun
    /\ xpc = "off"

\* the data handed to unpack_address: a reserved byte, a protocol byte, a port
\* and an address part of 0..MaxAddrPart bytes, and every prefix of such data
\* that is shorter than 4 bytes
MaxAddrPart == 17
AddrProtocols == {0, IPV4_PROTOCOL, IPV6_PROTOCOL, 3}
AddrPorts == {0, 3478, 65535}
AddrData ==
    LET full == {<<r, protocol>> \o PackH(port) \o XorData(n, pat[1], pat[2]) :
                    r \in {0, 255}, protocol \in AddrProtocols, port \in AddrPorts,
                    n \in 0..MaxAddrPart, pat \in {<<255, 0>>, <<33, 37>>}}
    IN full \cup {Slice(d, 0, n) : d \in {f \in full : Len(f) = 4}, n \in 0..3}

\* unpack_address at rest
AddrIdle ==
    /\ adata = <<>>
    /\ aout = NotRun
    /\ apc = "off"

\* the stepwise parse_message at rest
WalkIdle ==
    /\ wpos = 0
    /\ wattrs = <<>>
    /\ wpc = "off"

\* one Transaction, constructed and left alone
TxIdle ==
    /\ TxInit
    /\ request = "req1"
    /\ addr = "addrA"
    /\ now = 0

(***************************************************************************)
(* The codec's operations.                                                 *)
(***************************************************************************)
\* message.attributes[name] = value
SetAttribute(name, value) ==
    /\ cpc = "build"
    /\ \/ Len(msg.attributes) < MaxAttrs
       \/ \E i \in 1..Len(msg.attributes) : msg.attributes[i].name = name
    /\ msg' = [msg EXCEPT !.attributes = DictSet(msg.attributes, name, value)]
    /\ UNCHANGED <<wire, parsed, cpc, patched, txvars, xorvars, addrvars, walkvars>>

\* whether the Message holds the attribute
HasAttribute(m, name) == \E i \in 1..Len(m.attributes) : m.attributes[i].name = name

\* message.add_fingerprint()
AddFingerprint ==
    /\ cpc \in {"build", "signed"}
    /\ patched.n < MaxAdd
    /\ LET data == Bytes(msg)
           after == add_fingerprint(msg)
       IN IF after.ok
          THEN /\ msg' = after.val
               /\ patched' = [n |-> patched.n + 1, by |-> "FINGERPRINT",
                              had |-> HasAttribute(msg, "FINGERPRINT"),
                              before |-> Len(data.val) - HEADER_LENGTH,
                              length |-> PatchedLength(data.val, 8)]
               /\ cpc' = "signed"
          ELSE /\ cpc' = "failed"
               /\ UNCHANGED <<msg, patched>>
    /\ UNCHANGED <<wire, parsed, txvars, xorvars, addrvars, walkvars>>

\* message.add_message_integrity(key)
AddMessageIntegrity(key) ==
    /\ cpc \in {"build", "signed"}
    /\ patched.n < MaxAdd
    /\ LET data == Bytes(msg)
           after == add_message_integrity(msg, key)
       IN IF after.ok
          THEN /\ msg' = after.val
               /\ patched' = [n |-> patched.n + 1, by |-> "MESSAGE-INTEGRITY",
                              had |-> HasAttribute(msg, "MESSAGE-INTEGRITY"),
                              before |-> Len(data.val) - HEADER_LENGTH,
                              length |-> PatchedLength(data.val, 24)]
               /\ cpc' = "signed"
          ELSE /\ cpc' = "failed"
               /\ UNCHANGED <<msg, patched>>
    /\ UNCHANGED <<wire, parsed, txvars, xorvars, addrvars, walkvars>>

\* bytes(message)
Serialize ==
    /\ cpc \in {"build", "signed"}
    /\ LET data == Bytes(msg)
       IN /\ wire' = data.val
          /\ cpc' = IF data.ok THEN "wire" ELSE "failed"
    /\ UNCHANGED <<msg, parsed, patched, txvars, xorvars, addrvars, walkvars>>

\* parse_message(wire)
Parse ==
    /\ cpc \in {"wire", "raw", "cut", "patched"}
    /\ parsed' = parse_message(wire)
    /\ cpc' = "parsed"
    /\ UNCHANGED <<msg, wire, patched, txvars, xorvars, addrvars, walkvars>>

\* the network delivers only the first n bytes of the datagram
Truncate(n) ==
    /\ cpc = "raw"
    /\ n < Len(wire)
    /\ wire' = SubSeq(wire, 1, n)
    /\ cpc' = "cut"
    /\ UNCHANGED <<msg, parsed, patched, txvars, xorvars, addrvars, walkvars>>

\* the datagram arrives with a byte appended
Extend(b) ==
    /\ cpc = "raw"
    /\ wire' = Append(wire, b)
    /\ cpc' = "cut"
    /\ UNCHANGED <<msg, parsed, patched, txvars, xorvars, addrvars, walkvars>>

\* the datagram arrives with another value in its length field (bytes 2..3)
PatchLength(v) ==
    /\ cpc \in {"raw", "cut"}
    /\ Len(wire) >= 4
    /\ wire' = SubSeq(wire, 1, 2) \o PackH(v) \o SubSeq(wire, 5, Len(wire))
    /\ cpc' = "patched"
    /\ UNCHANGED <<msg, parsed, patched, txvars, xorvars, addrvars, walkvars>>

\* xor_address(xdata, xtid)
XorFirst ==
    /\ xpc = "in"
    /\ xout1' = xor_address(xdata, xtid)
    /\ xpc' = "once"
    /\ UNCHANGED <<xdata, xtid, xout2, txvars, codecvars, addrvars, walkvars>>

\* xor_address(xor_address(xdata, xtid), xtid): an exception of the inner call
\* is the outcome of the whole
XorSecond ==
    /\ xpc = "once"
    /\ xout2' = IF xout1.ok THEN xor_address(xout1.val, xtid) ELSE xout1
    /\ xpc' = "twice"
    /\ UNCHANGED <<xdata, xtid, xout1, txvars, codecvars, addrvars, walkvars>>

\* parse_message(wire) up to its while loop: the two length checks
WalkStart ==
    /\ cpc \in {"raw", "cut", "patched"}
    /\ wpc = "off"
    /\ IF TooShort(wire)
       THEN /\ parsed' = Err("ValueError: length is less than 20 bytes")
            /\ wpc' = "raised"
            /\ UNCHANGED <<wpos, wattrs>>
       ELSE IF LengthMismatch(wire, UnpackH(Slice(wire, 2, 4)))
       THEN /\ parsed' = Err("ValueError: length does not match")
            /\ wpc' = "raised"
            /\ UNCHANGED <<wpos, wattrs>>
       ELSE /\ wpos' = HEADER_LENGTH
            /\ wattrs' = <<>>
            /\ wpc' = "loop"
            /\ UNCHANGED parsed
    /\ cpc' = "walk"
    /\ UNCHANGED <<msg, wire, patched, txvars, xorvars, addrvars>>

\* one iteration of the while loop
WalkStep ==
    /\ wpc = "loop"
    /\ WalkContinues(wire, wpos)
    /\ LET it == WalkIteration(wire, Slice(wire, 8, HEADER_LENGTH), wpos, wattrs)
       IN IF it.ok
          THEN /\ wpos' = it.val.pos
               /\ wattrs' = it.val.attributes
               /\ UNCHANGED <<parsed, wpc>>
          ELSE /\ parsed' = it
               /\ wpc' = "raised"
               /\ UNCHANGED <<wpos, wattrs>>
    /\ UNCHANGED <<msg, wire, cpc, patched, txvars, xorvars, addrvars>>

\* the loop's condition fails and parse_message returns the Message
WalkReturn ==
    /\ wpc = "loop"
    /\ ~WalkContinues(wire, wpos)
    /\ parsed' = Ok(Message(ParsedMethod(UnpackH(Slice(wire, 0, 2))),
                            ParsedClass(UnpackH(Slice(wire, 0, 2))),
                            Slice(wire, 8, HEADER_LENGTH), wattrs))
    /\ wpc' = "returned"
    /\ UNCHANGED <<msg, wire, cpc, wpos, wattrs, patched, txvars, xorvars, addrvars>>

\* unpack_address(adata)
UnpackAddress ==
    /\ apc = "in"
    /\ aout' = unpack_address(adata)
    /\ apc' = "done"
    /\ UNCHANGED <<adata, txvars, codecvars, xorvars, walkvars>>

(***************************************************************************)
(* The specifications.                                                     *)
(***************************************************************************)
Init == TxInit /\ CodecIdle /\ XorIdle /\ AddrIdle /\ WalkIdle


\* the Transaction's own operations: run, the timer callback, message_received.
\* The class has no cancellation API; the cancellation of the task that awaits
\* run() comes from outside and is the extra step of TeardownSpec below.
Next ==
    \/ Run
    \/ RunResume
    \/ Tick
    \/ TimerFire
    \/ \E m \in Responses : MessageReceived(m)

Spec == Init /\ [][Next]_vars

\* the event loop runs due timers and wakes the task whose future is done
LiveSpec == Spec /\ WF_vars(Tick) /\ WF_vars(TimerFire) /\ WF_vars(RunResume)

\* the same operations, plus the teardown of the context that awaits run()
TeardownNext ==
    \/ Run
    \/ RunResume
    \/ Tick
    \/ TimerFire
    \/ \E m \in Responses : MessageReceived(m)
    \/ CancelAwait

TeardownSpec == Init /\ [][TeardownNext]_vars

\* a Message is built, serialized and parsed back
CodecInit ==
    /\ TxIdle
    /\ XorIdle
    /\ patched = NotPatched
    /\ \E m \in Methods, c \in Classes, t \in TIDs : msg = Message(m, c, t, <<>>)
    /\ wire = <<>>
    /\ parsed = NotRun
    /\ cpc = "build"
    /\ AddrIdle
    /\ WalkIdle

CodecNext ==
    \/ \E a \in AttrSamples : SetAttribute(a[1], a[2])
    \/ Serialize
    \/ Parse

CodecSpec == CodecInit /\ [][CodecNext]_vars

\* a Message is built, given a MESSAGE-INTEGRITY or a FINGERPRINT up to MaxAdd
\* times, serialized and parsed back
SignNext ==
    \/ \E a \in AttrSamples : SetAttribute(a[1], a[2])
    \/ AddFingerprint
    \/ \E key \in Keys : AddMessageIntegrity(key)
    \/ Serialize
    \/ Parse

SignSpec == CodecInit /\ [][SignNext]_vars

\* a datagram arrives, whole or damaged, and is parsed
WireInit ==
    /\ TxIdle
    /\ XorIdle
    /\ patched = NotPatched
    /\ msg = NoMessage
    /\ \E ty \in {1, 257}, t \in TIDs, sec \in WireSections : wire = RawWire(ty, t, sec)
    /\ parsed = NotRun
    /\ cpc = "raw"
    /\ AddrIdle
    /\ WalkIdle

WireNext ==
    \/ \E n \in 0..Len(wire) : Truncate(n)
    \/ \E b \in {0, 255} : Extend(b)
    \/ \E v \in PatchLengths(wire) : PatchLength(v)
    \/ Parse

WireSpec == WireInit /\ [][WireNext]_vars

\* xor_address is applied to a byte string, and again to its result
XorInit ==
    /\ TxIdle
    /\ CodecIdle
    /\ \E n \in 0..MaxXorLen, pat \in XorPatterns : xdata = XorData(n, pat[1], pat[2])
    /\ xtid \in TIDs
    /\ xout1 = NotRun
    /\ xout2 = NotRun
    /\ xpc = "in"
    /\ AddrIdle
    /\ WalkIdle

XorNext ==
    \/ XorFirst
    \/ XorSecond

XorSpec == XorInit /\ [][XorNext]_vars

\* unpack_address is applied to a byte string
AddrInit ==
    /\ TxIdle
    /\ CodecIdle
    /\ XorIdle
    /\ adata \in AddrData
    /\ aout = NotRun
    /\ apc = "in"
    /\ WalkIdle

AddrNext == UnpackAddress

AddrSpec == AddrInit /\ [][AddrNext]_vars

\* a datagram off the network, damaged on its way or not, goes through
\* parse_message one loop iteration at a time. The loop is sequential code:
\* once entered it runs on, hence the fairness of its steps.
WalkNext ==
    \/ \E n \in 0..Len(wire) : Truncate(n)
    \/ \E b \in {0, 255} : Extend(b)
    \/ \E v \in PatchLengths(wire) : PatchLength(v)
    \/ WalkStart
    \/ WalkStep
    \/ WalkReturn

WalkSpec == WireInit /\ [][WalkNext]_vars /\ WF_vars(WalkStep) /\ WF_vars(WalkReturn)

(***************************************************************************)
(* The claims about the Transaction.                                       *)
(***************************************************************************)
Timeout == [state |-> "exception", value |-> "Timeout"]
Resolved == future.state \in {"result", "exception"}

\* C1: with run() started and message_received never invoked, the transport's
\* send is called at most RETRY_MAX = 7 times; the tick after the 7th send
\* resolves the transaction as a Timeout failure, and a Timeout is only ever
\* reached after exactly 7 sends: there is no 8th send.
C1_SevenSendsThenTimeout ==
    nrecv = 0 =>
        /\ Len(sent) <= RETRY_MAX
        /\ Len(sent) = tries
        /\ (timeout_handle.state = "fired" => Len(sent) = RETRY_MAX /\ future = Timeout)
        /\ (future.state # "pending" => Len(sent) = RETRY_MAX /\ future = Timeout)

\* C1's case: no message was received, 7 sends were made and run() failed with Timeout
C1_Witness ==
    /\ nrecv = 0
    /\ Len(sent) = RETRY_MAX
    /\ future = Timeout
    /\ pc = "raised"

\* C2: a message_received invoked after the first send and before the
\* transaction has resolved (after any try k in 1..7) cancels the pending retry
\* timer, no further send occurs, and run() returns exactly that message.
C2_EarlyResolution ==
    /\ [](/\ (lastRecv.called /\ lastRecv.wasPending /\ lastRecv.hadTimer)
                => (future = [state |-> "result", value |-> lastRecv.msg]
                    /\ delivered = lastRecv.msg)
          /\ future.state = "result"
                => (timeout_handle.state = "cancelled" /\ future.value = delivered)
          /\ pc = "returned" => runResult = delivered)
    /\ [][future.state = "result" => sent' = sent /\ timeout_handle' = timeout_handle]_vars

\* C2's case: the message arrived after the 7th send, before the last timer
\* fired, a second message followed it, and run() returned the first one
C2_Witness ==
    /\ Len(sent) = RETRY_MAX
    /\ pc = "returned"
    /\ runResult = delivered
    /\ nrecv = 2
    /\ lastRecv.msg # delivered

\* the elapsed times of the 7 sends, in units of RETRY_INTERVAL (0.5 s):
\* 0, 0.5, 1.5, 3.5, 7.5, 15.5, 31.5 seconds
ExpectedSendTimes == <<0, 1, 3, 7, 15, 31, 63>>

\* C3: the retry delay is RETRY_INTERVAL after the first send and doubles after
\* every later send: the k-th send happens 0.5 * (2^(k-1) - 1) seconds after
\* the first, and the delay armed after it is 0.5 * 2^(k-1) seconds.
C3_SendTimes ==
    /\ \A k \in 1..Len(sent) :
          /\ sent[k].at - sent[1].at = RETRY_INTERVAL * (2^(k - 1) - 1)
          /\ sent[k].at - sent[1].at = ExpectedSendTimes[k]
    /\ tries > 0 => timeout_delay = RETRY_INTERVAL * 2^(tries - 1)
    /\ (tries > 0 /\ timeout_handle.state = "pending")
          => timeout_handle.when = sent[tries].at + timeout_delay

\* C3's case: all 7 sends were made with no response, the last 31.5 s after the first
C3_Witness ==
    /\ nrecv = 0
    /\ Len(sent) = RETRY_MAX
    /\ sent[RETRY_MAX].at - sent[1].at = 63
    /\ timeout_delay = 64

\* C4: once run() has been started, the transaction eventually reaches
\* Resolved(Success) or Resolved(Timeout) and run() ends with that outcome
\* (the event loop firing due timers); a timeout reaches the awaiter of run()
\* as the failure Timeout, and the timer callback never raises.
C4_EventuallyResolved ==
    /\ (pc = "awaiting") ~> (Resolved /\ pc \in {"returned", "raised"})
    /\ [](pc = "raised" => (runResult = "Timeout" /\ future = Timeout))
    /\ [](pc = "returned" => future.state = "result")
    /\ [](\A e \in errors : e[1] # "__retry")

\* C4's case: the retry budget ran out and the awaiter of run() got the Timeout
C4_Witness ==
    /\ pc = "raised"
    /\ runResult = "Timeout"
    /\ tries = RETRY_MAX

\* C5: the pending result is resolved exactly once: once the transaction is
\* resolved (with a message or with Timeout), no later message_received call or
\* timer tick changes the outcome or sends again.
C5_ResolvedOnce ==
    [][Resolved => (future' = future /\ sent' = sent)]_vars

\* C5's case: message_received was invoked on a transaction that was resolved
\* already, by Timeout or by an earlier message
C5_Witness ==
    /\ lastRecv.called
    /\ ~lastRecv.wasPending
    /\ Resolved
    /\ <<"message_received", "InvalidStateError">> \in errors

\* C6: message_received on a transaction that is not yet resolved, in every
\* such state, the Idle state before run() included, cancels the outstanding
\* timer (if any) and resolves the awaited result with the received message.
C6_ReceivedAlwaysResolves ==
    (lastRecv.called /\ lastRecv.wasPending)
        => /\ future = [state |-> "result", value |-> lastRecv.msg]
           /\ timeout_handle.state # "pending"

\* C7: once the await of run() is cancelled before the transaction resolves,
\* no send to the transport occurs any more.
C7_NoSendAfterTeardown ==
    [][pc = "cancelled" => sent' = sent]_vars

(***************************************************************************)
(* The claims about the codec.                                             *)
(***************************************************************************)
\* C8: round trip: for every well-formed Message (any method, any of the four
\* classes, any 12-byte transaction id, any registered attributes in any
\* order), parse_message(bytes(message)) gives back the same method, class,
\* transaction id and attribute values, in the same order.
C8_RoundTrip ==
    cpc = "parsed" => (parsed.ok /\ parsed.val = msg)

\* C9: XOR involution: for every byte string b of any length and every 12-byte
\* transaction id t, xor_address(xor_address(b, t), t) returns b.
C9_XorInvolution ==
    xpc = "twice" => (xout2.ok /\ xout2.val = xdata)

\* C9, amended: for every byte string b of at most 20 bytes (2 bytes and the
\* 18-byte pad) and every 12-byte transaction id t,
\* xor_address(xor_address(b, t), t) returns b; on a longer b xor_address
\* raises IndexError.
C9_XorInvolutionUpTo20 ==
    xpc = "twice" =>
        IF Len(xdata) <= 20
        THEN xout1.ok /\ xout2.ok /\ xout2.val = xdata
        ELSE xout1 = Err("IndexError") /\ xout2 = Err("IndexError")

\* C9's case: a 20-byte string, the size of a packed IPv6 address, was changed
\* by the first application and restored by the second
C9_Witness ==
    /\ xpc = "twice"
    /\ Len(xdata) = 20
    /\ xout1.ok
    /\ xout1.val # xdata
    /\ xout2.ok
    /\ xout2.val = xdata

\* the length the header of a datagram declares (bytes 2..3, big-endian)
DeclaredLength(data) == data[3] * 256 + data[4]

\* C10: parse_message fails whenever len(data) < 20 or len(data) is not 20 +
\* the length declared in header bytes 2..3, and it fails for neither reason
\* otherwise.
C10_LengthChecks ==
    cpc = "parsed" =>
        /\ Len(wire) < HEADER_LENGTH
              => parsed = Err("ValueError: length is less than 20 bytes")
        /\ Len(wire) >= HEADER_LENGTH
              => IF Len(wire) # HEADER_LENGTH + DeclaredLength(wire)
                 THEN parsed = Err("ValueError: length does not match")
                 ELSE parsed.err \notin {"ValueError: length is less than 20 bytes",
                                         "ValueError: length does not match"}

\* C10's case: a datagram with a whole header that carries more bytes than its
\* header declares was refused
C10_Witness ==
    /\ cpc = "parsed"
    /\ Len(wire) > HEADER_LENGTH + 4
    /\ Len(wire) > HEADER_LENGTH + DeclaredLength(wire)
    /\ DeclaredLength(wire) > 0
    /\ ~parsed.ok

\* whether the attribute walk of a datagram, from pos on, meets an attribute
\* whose declared length plus padding reaches past the end of the data
RECURSIVE HasTruncatedAttribute(_, _)
HasTruncatedAttribute(data, pos) ==
    IF pos + 4 > Len(data) THEN FALSE
    ELSE LET declared == data[pos + 3] * 256 + data[pos + 4]
             span == 4 + declared + ((4 - (declared % 4)) % 4)
         IN \/ pos + span > Len(data)
            \/ HasTruncatedAttribute(data, pos + span)

\* C11: parse_message fails with a malformed-message error, and never returns
\* a Message, when an attribute is truncated: its declared length (plus
\* padding) reaches past the end of the data although the header's length
\* matches len(data).
C11_TruncatedAttributeFails ==
    (/\ cpc = "parsed"
     /\ Len(wire) >= HEADER_LENGTH
     /\ Len(wire) = HEADER_LENGTH + DeclaredLength(wire)
     /\ HasTruncatedAttribute(wire, HEADER_LENGTH))
        => ~parsed.ok

\* the type and the declared length of the attribute that starts at pos
RawType(data, pos) == data[pos + 1] * 256 + data[pos + 2]
RawDeclared(data, pos) == data[pos + 3] * 256 + data[pos + 4]
RawSpan(data, pos) ==
    4 + RawDeclared(data, pos) + ((4 - (RawDeclared(data, pos) % 4)) % 4)

\* whether the datagram carries an attribute of an unregistered type
RECURSIVE HasUnknownAttribute(_, _)
HasUnknownAttribute(data, pos) ==
    IF pos + 4 > Len(data) THEN FALSE
    ELSE \/ ~KnownType(RawType(data, pos))
         \/ HasUnknownAttribute(data, pos + RawSpan(data, pos))

\* the attribute section from pos on, with the attributes of unregistered
\* types cut out
RECURSIVE StripUnknown(_, _)
StripUnknown(data, pos) ==
    IF pos + 4 > Len(data) THEN SubSeq(data, pos + 1, Len(data))
    ELSE LET span == RawSpan(data, pos)
             kept == IF KnownType(RawType(data, pos))
                     THEN SubSeq(data, pos + 1, Min(pos + span, Len(data)))
                     ELSE <<>>
         IN kept \o StripUnknown(data, pos + span)

\* the same datagram without its attributes of unregistered types
WithoutUnknown(data) ==
    LET section == StripUnknown(data, HEADER_LENGTH)
    IN SubSeq(data, 1, 2) \o <<Len(section) \div 256, Len(section) % 256>>
       \o SubSeq(data, 5, HEADER_LENGTH) \o section

\* C12: unknown attribute skip: on a datagram that carries an attribute of an
\* unregistered type, parse_message gives what it gives on the same datagram
\* without that attribute: the unknown attribute is left out of the decoded
\* map and every attribute after it is decoded at its offset, with its value.
C12_UnknownAttributeSkipped ==
    (/\ cpc = "parsed"
     /\ Len(wire) >= HEADER_LENGTH
     /\ Len(wire) = HEADER_LENGTH + DeclaredLength(wire)
     /\ HasUnknownAttribute(wire, HEADER_LENGTH))
        => /\ parsed = parse_message(WithoutUnknown(wire))
           /\ parsed.ok =>
                \A i \in 1..Len(parsed.val.attributes) :
                    \E j \in AttrIndex :
                        ATTRIBUTES[j].name = parsed.val.attributes[i].name

\* C12's case: a 5-byte attribute of type 0x7777 with 3 bytes of padding came
\* first and the PRIORITY after it was decoded, alone, with its value
C12_Witness ==
    /\ cpc = "parsed"
    /\ Len(wire) = HEADER_LENGTH + 20
    /\ RawType(wire, HEADER_LENGTH) = 30583
    /\ RawDeclared(wire, HEADER_LENGTH) = 5
    /\ parsed.ok
    /\ parsed.val.attributes =
          <<[name |-> "PRIORITY", value |-> IntValue(<<28160, 511>>)]>>

\* the bytes an attribute takes in the attribute section: 4 for type and
\* length, the packed value, and pad_len = (4 - len % 4) % 4 bytes of padding
RECURSIVE SectionLength(_, _)
SectionLength(attributes, transaction_id) ==
    IF attributes = <<>> THEN 0
    ELSE LET a == Head(attributes)
             len == Len(AttrPack(ATTRIBUTES_BY_NAME(a.name).kind, a.value,
                                 transaction_id).val)
         IN 4 + len + ((4 - (len % 4)) % 4)
            + SectionLength(Tail(attributes), transaction_id)

\* C14: for every Message and every sequence of attribute insertions, the
\* length field (header bytes 2..3) of bytes(message) is the byte length of the
\* serialized attribute section, which is the sum over the attributes of
\* 4 + value length + pad_len with pad_len = (4 - len % 4) % 4, a multiple of 4.
C14_LengthField ==
    cpc \in {"wire", "parsed"} =>
        /\ DeclaredLength(wire) = Len(wire) - HEADER_LENGTH
        /\ DeclaredLength(wire) = SectionLength(msg.attributes, msg.transaction_id)
        /\ DeclaredLength(wire) % 4 = 0

\* C14's case: two attributes of 5 bytes each, padded with 3 bytes each, and
\* one of 4 bytes that takes no padding
C14_Witness ==
    /\ cpc = "wire"
    /\ \E i, j \in 1..Len(msg.attributes) :
          /\ msg.attributes[i].name = "NONCE"
          /\ msg.attributes[j] = [name |-> "USERNAME", value |-> StrValue(<<233, 8364>>)]
    /\ Len(msg.attributes) = 2
    /\ DeclaredLength(wire) = 24
    /\ Len(wire) = HEADER_LENGTH + 24

\* C17: parse_message recovers method = type & 0x3eef and class = type &
\* 0x0100: of a message serialized with type = method | class, the method
\* having no bit of 0x0110, the parsed method is the method for all four
\* classes, and the parsed class is REQUEST for REQUEST and INDICATION and
\* RESPONSE for RESPONSE and ERROR.
C17_MethodAndClassMasks ==
    cpc = "parsed" =>
        /\ parsed.ok
        /\ parsed.val.message_method = msg.message_method
        /\ msg.message_class \in {REQUEST, INDICATION}
              => parsed.val.message_class = REQUEST
        /\ msg.message_class \in {RESPONSE, ERROR}
              => parsed.val.message_class = RESPONSE

\* C17's case: an ERROR of the method with every method bit set came back as
\* a RESPONSE of that method
C17_Witness ==
    /\ cpc = "parsed"
    /\ msg.message_class = ERROR
    /\ msg.message_method = METHOD_MASK
    /\ parsed.ok
    /\ parsed.val.message_class = RESPONSE
    /\ parsed.val.message_method = METHOD_MASK

\* the 16-byte pad of C16: the magic cookie 0x2112a442, big-endian, and the
\* transaction id
CookiePad(transaction_id) == <<33, 18, 164, 66>> \o transaction_id

\* the 18 bytes the code XORs with: the high half of the cookie (21 12), the
\* cookie (21 12 a4 42) and the transaction id
PortCookiePad(transaction_id) == <<33, 18, 33, 18, 164, 66>> \o transaction_id

\* the bytes of data from the third on, each XORed with the pad byte two
\* places before it; the first two bytes as they are
XorWithPad(data, pad) ==
    [i \in 1..Len(data) |-> IF i <= 2 THEN data[i] ELSE BitXor(data[i], pad[i - 2])]

\* C16: xor_address(data, transaction_id) leaves bytes 0 and 1 of data
\* unchanged and XORs bytes 2..end, position by position, against the 16-byte
\* pad of the 4-byte big-endian magic cookie followed by the 12-byte
\* transaction id (stated for the data the 16-byte pad covers, up to 18 bytes).
C16_CookiePad ==
    (xpc \in {"once", "twice"} /\ Len(xdata) <= 18) =>
        /\ xout1.ok
        /\ xout1.val = XorWithPad(xdata, CookiePad(xtid))

\* C16, amended: xor_address(data, transaction_id) leaves bytes 0 and 1 of
\* data unchanged and XORs bytes 2..end, position by position, against the
\* 18-byte pad 21 12 | 21 12 a4 42 | transaction_id: the port (bytes 2..3)
\* against the high 16 bits of the cookie, the address against the cookie and
\* then the transaction id.  Data longer than 20 bytes raise IndexError.
C16_PortCookiePad ==
    xpc \in {"once", "twice"} =>
        IF Len(xdata) <= 20
        THEN /\ xout1.ok
             /\ xout1.val = XorWithPad(xdata, PortCookiePad(xtid))
        ELSE xout1 = Err("IndexError")

\* C16's case: of 8 zero bytes, the size of a packed IPv4 address, the result
\* shows the pad itself: 21 12 for the port, 21 12 a4 42 for the address
C16_Witness ==
    /\ xpc = "once"
    /\ xdata = <<0, 0, 0, 0, 0, 0, 0, 0>>
    /\ xout1 = Ok(<<0, 0, 33, 18, 33, 18, 164, 66>>)

\* C18: in every reachable state of a Transaction the tries counter is the
\* number of sends issued to the transport so far and lies in 0..RETRY_MAX (7);
\* every send passes the request and the destination address given at
\* construction.
C18_TriesCountsSends ==
    /\ tries = Len(sent)
    /\ tries \in 0..RETRY_MAX
    /\ \A k \in 1..Len(sent) : sent[k].request = request /\ sent[k].addr = addr

\* C18's case: the seventh send has been issued and the transaction still
\* waits for its answer
C18_Witness ==
    /\ tries = RETRY_MAX
    /\ Len(sent) = RETRY_MAX
    /\ sent[RETRY_MAX].request = request
    /\ sent[RETRY_MAX].addr = addr
    /\ ~FutureDone(future)

\* C19: a Transaction has at most one retry timer pending at any time; while
\* it is unresolved and at least one send has occurred exactly one timer is
\* pending, and once it is resolved (by message_received or by Timeout) no timer
\* is pending.
C19_OneTimer ==
    /\ Cardinality(PendingTimers) <= 1
    /\ (~FutureDone(future) /\ Len(sent) >= 1) => Cardinality(PendingTimers) = 1
    /\ FutureDone(future) => PendingTimers = {}

\* C19's case: two timers have fired, the third was cancelled by the message
\* that resolved the transaction, and none is left
C19_Witness ==
    /\ Len(scheduled) = 3
    /\ scheduled[1].state = "fired"
    /\ scheduled[2].state = "fired"
    /\ scheduled[3].state = "cancelled"
    /\ timeout_handle = scheduled[3]
    /\ future.state = "result"
    /\ PendingTimers = {}

\* C13: unpack_address fails for every input shorter than 4 bytes, for every
\* input whose protocol byte is neither 1 (IPv4) nor 2 (IPv6), for a declared
\* IPv4 with an address part of other than 4 bytes and for a declared IPv6 with
\* an address part of other than 16 bytes; in all other cases it returns
\* (address, port) with the port read big-endian from bytes 2..3.
C13_UnpackAddressValidation ==
    apc = "done" =>
        IF \/ Len(adata) < 4
           \/ adata[2] \notin {IPV4_PROTOCOL, IPV6_PROTOCOL}
           \/ (adata[2] = IPV4_PROTOCOL /\ Len(adata) - 4 # 4)
           \/ (adata[2] = IPV6_PROTOCOL /\ Len(adata) - 4 # 16)
        THEN ~aout.ok
        ELSE /\ aout.ok
             /\ aout.val.t = (IF adata[2] = IPV4_PROTOCOL THEN "ipv4" ELSE "ipv6")
             /\ aout.val.s = UnpackGroups(Slice(adata, 4, Len(adata)))
             /\ aout.val.p = adata[3] * 256 + adata[4]

\* C13's case: 00 01 0d 96 46 6b 90 b5 was unpacked as an IPv4 address with
\* port 3478
C13_Witness ==
    /\ apc = "done"
    /\ adata = <<0, 1, 13, 150, 70, 107, 144, 181>>
    /\ aout = Ok(IPv4Value(<<18027, 37045>>, 3478))

\* C20: the attribute walk of parse_message terminates for every input that
\* passes the length checks: the position advances by at least 4 bytes on
\* every iteration and the loop runs only while pos <= len(data) - 4, so a walk
\* that has begun ends, by a return or by the exception of an attribute;
\* with fewer than 4 bytes left the walk returns the Message without error.
C20_WalkTerminates ==
    /\ [][(wpc = "loop" /\ wpc' = "loop")
             => (WalkContinues(wire, wpos) /\ wpos' >= wpos + 4)]_vars
    /\ [][(wpc = "loop" /\ ~WalkContinues(wire, wpos))
             => (wpc' = "returned" /\ parsed'.ok)]_vars
    /\ (wpc = "loop") ~> (wpc \in {"returned", "raised"})

\* C20's case: a walk of three iterations, one of them over an attribute of an
\* unregistered type, has reached the end of the datagram and returned
C20_Witness ==
    /\ wpc = "returned"
    /\ Len(wire) = HEADER_LENGTH + 24
    /\ wpos = Len(wire)
    /\ parsed.ok
    /\ Len(parsed.val.attributes) = 2

\* a second case of C20: the walk has returned with 3 bytes left after the
\* last attribute
C20_TrailingCase ==
    /\ wpc = "returned"
    /\ Len(wire) - wpos = 3
    /\ parsed.ok

\* the attributes without the one of the given name
WithoutAttribute(attributes, name) == SelectSeq(attributes, LAMBDA a : a.name # name)

\* C15: length patching matches the next serialization: after
\* add_fingerprint(), bytes(message) has a length field equal to the attribute
\* bytes without the fingerprint plus 8, and equal to the length that was
\* patched into the bytes over which the fingerprint was computed; after
\* add_message_integrity(key) the serialized length field is the patched
\* length, the previous attribute bytes plus 24; on any message, also when the
\* one call follows the other.
C15_PatchedLengthSerialized ==
    (cpc \in {"wire", "parsed"} /\ patched.by # "none") =>
        /\ DeclaredLength(wire) = patched.length
        /\ patched.by = "FINGERPRINT" =>
              DeclaredLength(wire) =
                  SectionLength(WithoutAttribute(msg.attributes, "FINGERPRINT"),
                                msg.transaction_id) + 8
        /\ patched.by = "MESSAGE-INTEGRITY" =>
              patched.length = patched.before + 24

\* the part of C15 that the runs bear out: the same, for a call on a Message
\* that does not hold the attribute yet
C15_PatchedLengthOfNewAttribute ==
    (cpc \in {"wire", "parsed"} /\ patched.by # "none" /\ ~patched.had) =>
        /\ DeclaredLength(wire) = patched.length
        /\ patched.by = "FINGERPRINT" =>
              DeclaredLength(wire) =
                  SectionLength(WithoutAttribute(msg.attributes, "FINGERPRINT"),
                                msg.transaction_id) + 8
        /\ patched.by = "MESSAGE-INTEGRITY" =>
              patched.length = patched.before + 24

\* add_message_integrity followed by add_fingerprint, serialized: the length
\* field is the patched one, 24 + 8 more than the attributes took before
C15_IntegrityThenFingerprint ==
    /\ cpc = "wire"
    /\ patched.n = 2
    /\ patched.by = "FINGERPRINT"
    /\ ~patched.had
    /\ HasAttribute(msg, "MESSAGE-INTEGRITY")
    /\ Len(msg.attributes) = 4
    /\ DeclaredLength(wire) = patched.length
    /\ patched.length = patched.before + 8

====
